---- MODULE Spec2Model ----
(***************************************************************************)
(* tree_sitter_type_provider: the node-type schema, the synthesis of the   *)
(* typed-node registry (TreeSitterTypeProvider.__init__), the cursor-driven*)
(* conversion (from_tree_sitter / _from_tree_cursor), the structural       *)
(* equivalence check and the ParseError rendering.                         *)
(*                                                                         *)
(* Python strings that the code takes apart (type names, source text) are  *)
(* sequences of one-character strings.  Python dicts are sequences of      *)
(* <<key, value>> pairs in insertion order.  A Python value that is None,  *)
(* a Node or a list carries a tag.                                         *)
(***************************************************************************)
EXTENDS Integers, Sequences, FiniteSets, TLC

VARIABLES
    given,      \* the arguments TreeSitterTypeProvider(...) is called with
    provider,   \* the TreeSitterTypeProvider object
    looked,     \* outcome of the last direct _node_type / _node_class call
    tree,       \* the tree-sitter tree handed to from_tree_sitter, as far as walked
    closed,     \* paths of tree whose list of children is known completely
    call,       \* keyword arguments of the running from_tree_sitter call
    cursor,     \* the TreeCursor: path of the node it is on
    stack,      \* activation records of _from_tree_cursor, innermost last
    pc,         \* position of the innermost activation
    result,     \* outcome of the from_tree_sitter call, once it has ended
    error,      \* a ParseError value about to be rendered
    rendered    \* outcome of str(error)

vars == <<given, provider, looked, tree, closed, call, cursor, stack, pc,
          result, error, rendered>>

(***************************************************************************)
(* Bounds                                                                  *)
(***************************************************************************)
MaxEntries == 3     \* schema entries passed to the constructor
MaxNodes == 4       \* nodes of a tree-sitter tree
MaxLen == 4         \* characters of a rendered source text

(***************************************************************************)
(* Strings                                                                 *)
(***************************************************************************)
LowerCase == <<"a","b","c","d","e","f","g","h","i","j","k","l","m",
               "n","o","p","q","r","s","t","u","v","w","x","y","z">>
UpperCase == <<"A","B","C","D","E","F","G","H","I","J","K","L","M",
               "N","O","P","Q","R","S","T","U","V","W","X","Y","Z">>

IndexOf(seq, c) ==
    IF \E i \in 1..Len(seq) : seq[i] = c
    THEN CHOOSE i \in 1..Len(seq) : seq[i] = c
    ELSE 0

Upper(c) == IF IndexOf(LowerCase, c) > 0 THEN UpperCase[IndexOf(LowerCase, c)] ELSE c
Lower(c) == IF IndexOf(UpperCase, c) > 0 THEN LowerCase[IndexOf(UpperCase, c)] ELSE c

\* str.capitalize
Capitalize(s) ==
    [i \in 1..Len(s) |-> IF i = 1 THEN Upper(s[i]) ELSE Lower(s[i])]

\* str.split(sep): the pieces between separators, empty pieces kept
RECURSIVE SplitFrom(_, _, _, _)
SplitFrom(s, sep, i, cur) ==
    IF i > Len(s) THEN <<cur>>
    ELSE IF s[i] = sep THEN <<cur>> \o SplitFrom(s, sep, i + 1, <<>>)
    ELSE SplitFrom(s, sep, i + 1, Append(cur, s[i]))

Split(s, sep) == SplitFrom(s, sep, 1, <<>>)

\* "".join(parts)
RECURSIVE Join(_, _)
Join(sep, parts) ==
    IF parts = <<>> THEN <<>>
    ELSE IF Len(parts) = 1 THEN parts[1]
    ELSE parts[1] \o sep \o Join(sep, Tail(parts))

snake_to_pascal(node_type_name) ==
    Join(<<>>, [i \in 1..Len(Split(node_type_name, "_")) |->
                    Capitalize(Split(node_type_name, "_")[i])])

(***************************************************************************)
(* Python dicts and values                                                 *)
(***************************************************************************)
DictHas(d, k) == \E i \in 1..Len(d) : d[i][1] = k
DictGet(d, k) == d[CHOOSE i \in 1..Len(d) : d[i][1] = k][2]
DictPut(d, k, v) ==
    IF DictHas(d, k)
    THEN [i \in 1..Len(d) |-> IF d[i][1] = k THEN <<k, v>> ELSE d[i]]
    ELSE Append(d, <<k, v>>)
DictKeys(d) == [i \in 1..Len(d) |-> d[i][1]]
DictValues(d) == [i \in 1..Len(d) |-> d[i][2]]
DictKeySet(d) == {d[i][1] : i \in 1..Len(d)}

None == [tag |-> "None"]
List(items) == [tag |-> "list", items |-> items]
Str(chars) == [tag |-> "str", chars |-> chars]

(***************************************************************************)
(* node_types.py: the schema model                                         *)
(***************************************************************************)
SimpleNodeType(type_name, named) == [type_name |-> type_name, named |-> named]

NodeArgsType(multiple, required, types) ==
    [multiple |-> multiple, required |-> required, types |-> types]

NoArgs == NodeArgsType(FALSE, FALSE, <<>>)

NodeType(type_name, named, fields, children, subtypes) ==
    [type_name |-> type_name, named |-> named, fields |-> fields,
     children |-> children, subtypes |-> subtypes]

\* NodeArgsType.named
args_named(self) == \E i \in 1..Len(self.types) : self.types[i].named
\* NodeArgsType.__bool__
args_bool(self) == Len(self.types) > 0

is_abstract(self) == Len(self.subtypes) > 0
has_content(self) == Len(self.fields) > 0 \/ args_bool(self.children)
\* __post_init__ that looks at the fields only
post_init_fields_only(self) == ~(is_abstract(self) /\ Len(self.fields) > 0)

\* NodeType.__post_init__: the assertion holds
post_init(self) == ~(is_abstract(self) /\ has_content(self))

\* typing.Union keeps the first of equal members
RECURSIVE Dedup(_)
Dedup(s) ==
    IF s = <<>> THEN <<>>
    ELSE LET rest == Dedup(SelectSeq(Tail(s), LAMBDA x : x # s[1]))
         IN  <<s[1]>> \o rest

RECURSIVE NamedClassNames(_)
NamedClassNames(simple_node_types) ==
    IF simple_node_types = <<>> THEN <<>>
    ELSE (IF simple_node_types[1].named
          THEN <<snake_to_pascal(simple_node_types[1].type_name)>>
          ELSE <<>>) \o NamedClassNames(Tail(simple_node_types))

\* SimpleNodeType.many_as_typehint: no type, or the union of the named ones
many_as_typehint(simple_node_types) == Dedup(NamedClassNames(simple_node_types))

NoHint == [kind |-> "None", of |-> <<>>]

\* as_typehint that treats the children like a field (no extra type added)
as_typehint_exact(self, is_field, extra) ==
    LET T == many_as_typehint(self.types)
    IN  IF T # <<>>
        THEN IF self.multiple THEN [kind |-> "List", of |-> T]
             ELSE IF self.required THEN [kind |-> "Bare", of |-> T]
             ELSE [kind |-> "Optional", of |-> T]
        ELSE NoHint

\* NodeArgsType.as_typehint
as_typehint(self, is_field, extra) ==
    LET types_with_extra == IF is_field THEN self.types ELSE self.types \o extra
        multiple_with_extra == IF is_field THEN self.multiple
                               ELSE (Len(extra) > 0 \/ self.multiple)
        T == many_as_typehint(types_with_extra)
    IN  IF T # <<>>
        THEN IF multiple_with_extra THEN [kind |-> "List", of |-> T]
             ELSE IF self.required THEN [kind |-> "Bare", of |-> T]
             ELSE [kind |-> "Optional", of |-> T]
        ELSE NoHint

(***************************************************************************)
(* Classes.  A class object is identified by the moment of its creation    *)
(* (serial) together with its name; the classes of the library have        *)
(* serial 0.                                                               *)
(***************************************************************************)
Class(serial, name, bases, slots, kind, node_type) ==
    [serial |-> serial, name |-> name, bases |-> bases, slots |-> slots,
     kind |-> kind, node_type |-> node_type]

NoNodeType == NodeType(<<>>, FALSE, <<>>, NoArgs, <<>>)

NodeClass == Class(0, <<"N","o","d","e">>, <<>>, <<>>, "Node", NoNodeType)
LeafClass == Class(0, <<"L","e","a","f">>, <<NodeClass>>, <<>>, "Leaf", NoNodeType)
BranchClass ==
    Class(0, <<"B","r","a","n","c","h">>, <<NodeClass>>,
          <<<<"children", [kind |-> "Union", of |-> <<NodeClass.name>>]>>>>,
          "Branch", NoNodeType)
ParseErrorClass ==
    Class(0, <<"P","a","r","s","e","E","r","r","o","r">>, <<BranchClass>>,
          <<<<"children", [kind |-> "List", of |-> <<NodeClass.name>>]>>,
            <<"contents", [kind |-> "Optional", of |-> <<<<"s","t","r">>>>]>>,
            <<"filename", [kind |-> "Optional", of |-> <<<<"s","t","r">>>>]>>>>,
          "ParseError", NoNodeType)

RECURSIVE FieldSlots(_, _)
FieldSlots(fields, extra) ==
    IF fields = <<>> THEN <<>>
    ELSE LET field_name == fields[1][1]
             field == fields[1][2]
             field_type == as_typehint(field, TRUE, extra)
             rest == FieldSlots(Tail(fields), extra)
         IN  IF args_named(field) /\ field_type # NoHint
             THEN <<<<field_name, field_type>>>> \o rest
             ELSE rest

\* NodeType.as_type; serial numbers the class object it creates
as_type(self, mixins, extra, serial) ==
    IF self.named
    THEN IF is_abstract(self)
         THEN Class(serial, snake_to_pascal(self.type_name), <<NodeClass>>, <<>>,
                    "abstract", NoNodeType)
         ELSE LET fields == FieldSlots(self.fields, extra)
                  children_type == as_typehint(self.children, FALSE, extra)
                  slots == IF has_content(self)
                           THEN DictPut(fields, "children", children_type)
                           ELSE fields
                  base == IF has_content(self) THEN BranchClass ELSE LeafClass
              IN  Class(serial, snake_to_pascal(self.type_name),
                        <<base>> \o mixins, slots, "dataclass", self)
    ELSE Class(serial, <<>>, <<>>, <<>>, "ValueError", self)

(***************************************************************************)
(* __init__.py: TreeSitterTypeProvider.__init__                            *)
(***************************************************************************)
ERROR == <<"E","R","R","O","R">>

\* the module object before __init__ has filled it
NoProvider ==
    [constructed |-> FALSE, node_types_by_type |-> <<>>, extra |-> <<>>,
     node_bases_by_type |-> <<>>, node_classes_by_type |-> <<>>, attrs |-> <<>>]

\* IndexNamed without the test "if node_type.named"
RECURSIVE IndexNamed_unfiltered(_, _)
IndexNamed_unfiltered(node_types, by_type) ==
    IF node_types = <<>> THEN by_type
    ELSE IndexNamed_unfiltered(Tail(node_types),
                    DictPut(by_type, node_types[1].type_name, node_types[1]))

\* "Dictionary of named node types"
RECURSIVE IndexNamed(_, _)
IndexNamed(node_types, by_type) ==
    IF node_types = <<>> THEN by_type
    ELSE IndexNamed(Tail(node_types),
                    IF node_types[1].named
                    THEN DictPut(by_type, node_types[1].type_name, node_types[1])
                    ELSE by_type)

\* "Insert node types for extra nodes"
RECURSIVE InsertExtra(_, _)
InsertExtra(extra, by_type) ==
    IF extra = <<>> THEN by_type
    ELSE InsertExtra(Tail(extra),
                     IF ~DictHas(by_type, extra[1])
                     THEN DictPut(by_type, extra[1],
                                  NodeType(extra[1], TRUE, <<>>, NoArgs, <<>>))
                     ELSE by_type)

\* "Insert a node type for ERROR"
ErrorNodeType(node_types) ==
    NodeType(ERROR, TRUE, <<>>, NodeArgsType(TRUE, TRUE, node_types), <<>>)

\* _extra_node_types
extra_node_types(extra, by_type) ==
    [i \in 1..Len(extra) |-> DictGet(by_type, extra[i])]
        \o (IF \E i \in 1..Len(extra) : extra[i] = ERROR
            THEN <<>> ELSE <<DictGet(by_type, ERROR)>>)

\* the loop over node_type.subtypes of one abstract node type
RECURSIVE AddBases(_, _, _)
AddBases(subtypes, abscls, bases_by_type) ==
    IF subtypes = <<>> THEN bases_by_type
    ELSE LET subtype == subtypes[1]
             old == IF DictHas(bases_by_type, subtype.type_name)
                    THEN DictGet(bases_by_type, subtype.type_name) ELSE <<>>
         IN  AddBases(Tail(subtypes), abscls,
                      IF subtype.named
                      THEN DictPut(bases_by_type, subtype.type_name, Append(old, abscls))
                      ELSE bases_by_type)

\* "Dictionary of abstract classes"; acc = [bases, attrs, serial]
RECURSIVE AbstractPass(_, _, _, _)
AbstractPass(values, mixins, extra, acc) ==
    IF values = <<>> THEN acc
    ELSE LET node_type == values[1]
             abscls == as_type(node_type, mixins, extra, acc.serial + 1)
             abscls_name == snake_to_pascal(node_type.type_name)
         IN  AbstractPass(Tail(values), mixins, extra,
                 IF is_abstract(node_type)
                 THEN [bases |-> AddBases(node_type.subtypes, abscls, acc.bases),
                       attrs |-> DictPut(acc.attrs, abscls_name, abscls),
                       serial |-> acc.serial + 1]
                 ELSE acc)

\* "Dictionary of dataclasses"; acc = [classes, attrs, serial]
RECURSIVE DataclassPass(_, _, _, _, _)
DataclassPass(values, bases_by_type, mixins, extra, acc) ==
    IF values = <<>> THEN acc
    ELSE LET node_type == values[1]
             bases == IF DictHas(bases_by_type, node_type.type_name)
                      THEN DictGet(bases_by_type, node_type.type_name) ELSE <<>>
             cls == as_type(node_type, bases \o mixins, extra, acc.serial + 1)
         IN  DataclassPass(Tail(values), bases_by_type, mixins, extra,
                 IF node_type.type_name = ERROR
                 THEN [classes |-> DictPut(acc.classes, ERROR, ParseErrorClass),
                       attrs |-> DictPut(acc.attrs, snake_to_pascal(node_type.type_name),
                                         ParseErrorClass),
                       serial |-> acc.serial]
                 ELSE [classes |-> DictPut(acc.classes, node_type.type_name, cls),
                       attrs |-> DictPut(acc.attrs, snake_to_pascal(node_type.type_name), cls),
                       serial |-> acc.serial + 1])

\* TreeSitterTypeProvider.__init__(module_name, node_types, extra=extra)
ProviderInit(node_types, extra) ==
    LET by_type == DictPut(InsertExtra(extra, IndexNamed(node_types, <<>>)),
                           ERROR, ErrorNodeType(node_types))
        extra_types == extra_node_types(extra, by_type)
        pass1 == AbstractPass(DictValues(by_type), <<>>, extra_types,
                              [bases |-> <<>>, attrs |-> <<>>, serial |-> 0])
        pass2 == DataclassPass(DictValues(by_type), pass1.bases, <<>>, extra_types,
                               [classes |-> <<>>, attrs |-> pass1.attrs,
                                serial |-> pass1.serial])
    IN  [constructed |-> TRUE, node_types_by_type |-> by_type, extra |-> extra_types,
         node_bases_by_type |-> pass1.bases, node_classes_by_type |-> pass2.classes,
         attrs |-> pass2.attrs]

(***************************************************************************)
(* __init__.py: ParseError._annotated_region                               *)
(***************************************************************************)
Min(a, b) == IF a < b THEN a ELSE b

\* str.splitlines(), for text whose only line boundary is "\n"
splitlines(s) ==
    LET parts == Split(s, "\n")
    IN  IF parts[Len(parts)] = <<>> THEN SubSeq(parts, 1, Len(parts) - 1) ELSE parts

\* seq[a:b] for 0 <= a, 0 <= b
Slice(seq, a, b) == SubSeq(seq, Min(a, Len(seq)) + 1, Min(b, Len(seq)))

\* annotation with the column end excluded
annotation_exclusive(line, start, end) ==
    [i \in 1..Len(line) |-> IF (i - 1) < start \/ end <= (i - 1) THEN " " ELSE "^"]

\* the loop of lines 57-63, c = i - 1
annotation(line, start, end) ==
    [i \in 1..Len(line) |-> IF (i - 1) < start \/ end < (i - 1) THEN " " ELSE "^"]

\* _annotated_lines: each line, then its annotation
annotated_lines(self, lines) ==
    [k \in 1..(2 * Len(lines)) |->
        LET l == (k - 1) \div 2
            line == lines[l + 1]
            is_first_line == l = 0
            is_last_line == l = Len(lines) - 1
            start == IF is_first_line THEN self.start_position.column ELSE 0
            end == IF is_last_line THEN self.end_position.column ELSE Len(line)
        IN  IF k % 2 = 1 THEN line ELSE annotation(line, start, end)]

\* "if self.contents": neither None nor the empty string
Truthy(value) == value.tag = "str" /\ value.chars # <<>>

\* ParseError._annotated_region
annotated_region(self) ==
    IF Truthy(self.attrs["contents"])
    THEN LET lines == Slice(splitlines(self.attrs["contents"].chars),
                            self.start_position.line,
                            self.end_position.line + 1)
         IN  Join(<<"\n">>, annotated_lines(self, lines))
    ELSE self.text

(***************************************************************************)
(* node_types.py: NodeType(...), the __init__ that dataclass generates,    *)
(* which ends with __post_init__                                           *)
(***************************************************************************)
new_NodeType(type_name, named, fields, children, subtypes) ==
    LET self == NodeType(type_name, named, fields, children, subtypes)
    IN  IF post_init(self)
        THEN [kind |-> "ok", value |-> self]
        ELSE [kind |-> "AssertionError", value |-> self]

(***************************************************************************)
(* Lookups                                                                 *)
(***************************************************************************)
Ok(value) == [kind |-> "ok", value |-> value]
Raised(exc, arg) == [kind |-> exc, value |-> arg]

\* TreeSitterTypeProvider._node_type
node_type_of(self, node_type_name) ==
    IF DictHas(self.node_types_by_type, node_type_name)
    THEN Ok(DictGet(self.node_types_by_type, node_type_name))
    ELSE Raised("NodeTypeError", node_type_name)

\* _node_has_children that looks at the children contract only
node_has_children_contract(self, node_type_name) ==
    IF node_type_of(self, node_type_name).kind = "ok"
    THEN Ok(args_bool(node_type_of(self, node_type_name).value.children))
    ELSE node_type_of(self, node_type_name)

\* TreeSitterTypeProvider._node_has_children
node_has_children(self, node_type_name) ==
    IF node_type_of(self, node_type_name).kind = "ok"
    THEN Ok(has_content(node_type_of(self, node_type_name).value))
    ELSE node_type_of(self, node_type_name)

\* TreeSitterTypeProvider._node_class
node_class(self, node_type_name) ==
    IF DictHas(self.node_classes_by_type, node_type_name)
    THEN Ok(DictGet(self.node_classes_by_type, node_type_name))
    ELSE Raised("NodeTypeError", node_type_name)

(***************************************************************************)
(* The tree-sitter tree and its cursor (external).  A node is named by its *)
(* path from the root; tree maps the paths walked so far to what the       *)
(* parser reports for the node there.                                      *)
(***************************************************************************)
TsNode(type, is_named, field, text) ==
    [type |-> type, is_named |-> is_named, field |-> field, text |-> text]

Parent(path) == SubSeq(path, 1, Len(path) - 1)
NextSibling(path) == [path EXCEPT ![Len(path)] = @ + 1]
FirstChild(path) == Append(path, 1)

\* tsnode.start_point / tsnode.end_point: (row, column) tuples, different
\* for different nodes
RECURSIVE Offset(_)
Offset(path) == IF path = <<>> THEN 0 ELSE 10 * Offset(Parent(path)) + path[Len(path)]

start_point(path) == <<Len(path), Offset(path)>>
end_point(path) == <<Len(path), Offset(path) + 1>>

\* Point.from_tree_sitter
Point_from_tree_sitter(tspoint) == [line |-> tspoint[1], column |-> tspoint[2]]

\* _root_node: the text of the root of the tree the node belongs to
root_node_text(tr, path) == DictGet(tr, <<>>).text

(***************************************************************************)
(* __init__.py: TreeSitterTypeProvider._from_tree_cursor                   *)
(***************************************************************************)
NoField == <<>>

\* EnterNode without the test "if tscursor.node.is_named"
EnterNode_unchecked(self, tr, path, field_name) ==
    LET tsnode == DictGet(tr, path)
        found == node_type_of(self, tsnode.type)
    IN  IF found.kind = "ok"
        THEN Ok([path |-> path,
                 text |-> tsnode.text,
                 type_name |-> tsnode.type,
                 node_type |-> found.value,
                 start_position |-> Point_from_tree_sitter(start_point(path)),
                 end_position |-> Point_from_tree_sitter(end_point(path)),
                 fields |-> <<>>,
                 children |-> <<>>,
                 field_name |-> field_name])
        ELSE found

\* lines 156-166 (and 242): the start of an activation on the node at path;
\* field_name is what the caller's convert_child read before the call
EnterNode(self, tr, path, field_name) ==
    LET tsnode == DictGet(tr, path)
        found == node_type_of(self, tsnode.type)
    IN  IF tsnode.is_named
        THEN IF found.kind = "ok"
             THEN Ok([path |-> path,
                      text |-> tsnode.text,
                      type_name |-> tsnode.type,
                      node_type |-> found.value,
                      start_position |-> Point_from_tree_sitter(start_point(path)),
                      end_position |-> Point_from_tree_sitter(end_point(path)),
                      fields |-> <<>>,
                      children |-> <<>>,
                      field_name |-> field_name])
             ELSE found
        ELSE Raised("TypeError", tsnode.type)

\* convert_child with the branches "isinstance(field_value, Node)" and "else"
\* merged: a later occurrence always pairs the stored value with the child
convert_child_pairing(frame, field_name, child) ==
    IF field_name = NoField
    THEN Ok([frame EXCEPT !.children = Append(@, child)])
    ELSE IF ~DictHas(frame.node_type.fields, field_name[1])
    THEN Raised("KeyError", field_name)
    ELSE IF DictGet(frame.node_type.fields, field_name[1]).multiple
    THEN IF DictHas(frame.fields, field_name[1])
         THEN Ok([frame EXCEPT !.fields =
                     DictPut(@, field_name[1],
                             List(<<DictGet(frame.fields, field_name[1]), child>>))])
         ELSE Ok([frame EXCEPT !.fields = DictPut(@, field_name[1], List(<<child>>))])
    ELSE Ok([frame EXCEPT !.fields = DictPut(@, field_name[1], child)])

\* convert_child that puts a child without field name in front of the others
convert_child_in_front(frame, field_name, child) ==
    IF field_name = NoField
    THEN Ok([frame EXCEPT !.children = <<child>> \o @])
    ELSE IF ~DictHas(frame.node_type.fields, field_name[1])
    THEN Raised("KeyError", field_name)
    ELSE IF DictGet(frame.node_type.fields, field_name[1]).multiple
    THEN IF DictHas(frame.fields, field_name[1])
         THEN Ok([frame EXCEPT !.fields =
                     DictPut(@, field_name[1],
                             List(Append(DictGet(frame.fields, field_name[1]).items,
                                         child)))])
         ELSE Ok([frame EXCEPT !.fields = DictPut(@, field_name[1], List(<<child>>))])
    ELSE Ok([frame EXCEPT !.fields = DictPut(@, field_name[1], child)])

\* convert_child after the recursive call returned child (lines 176-191)
convert_child(frame, field_name, child) ==
    IF field_name = NoField
    THEN Ok([frame EXCEPT !.children = Append(@, child)])
    ELSE IF ~DictHas(frame.node_type.fields, field_name[1])
    THEN Raised("KeyError", field_name)
    ELSE IF DictGet(frame.node_type.fields, field_name[1]).multiple
    THEN IF DictHas(frame.fields, field_name[1])
         THEN LET field_value == DictGet(frame.fields, field_name[1])
              IN  IF field_value.tag = "None"
                  THEN Ok([frame EXCEPT !.fields = DictPut(@, field_name[1], child)])
                  ELSE IF field_value.tag = "node"
                  THEN Ok([frame EXCEPT !.fields =
                              DictPut(@, field_name[1], List(<<field_value, child>>))])
                  ELSE Ok([frame EXCEPT !.fields =
                              DictPut(@, field_name[1],
                                      List(Append(field_value.items, child)))])
         ELSE Ok([frame EXCEPT !.fields = DictPut(@, field_name[1], List(<<child>>))])
    ELSE Ok([frame EXCEPT !.fields = DictPut(@, field_name[1], child)])

\* optional_fields without the test "not field_type.required"
RECURSIVE optional_fields_all(_, _)
optional_fields_all(schema_fields, fields) ==
    IF schema_fields = <<>> THEN fields
    ELSE LET field_name == schema_fields[1][1]
             field_type == schema_fields[1][2]
         IN  optional_fields_all(Tail(schema_fields),
                 IF ~DictHas(fields, field_name)
                 THEN IF field_type.multiple
                      THEN DictPut(fields, field_name, List(<<>>))
                      ELSE DictPut(fields, field_name, None)
                 ELSE fields)

\* "Handle optional fields" (lines 201-207)
RECURSIVE optional_fields(_, _)
optional_fields(schema_fields, fields) ==
    IF schema_fields = <<>> THEN fields
    ELSE LET field_name == schema_fields[1][1]
             field_type == schema_fields[1][2]
         IN  optional_fields(Tail(schema_fields),
                 IF ~field_type.required /\ ~DictHas(fields, field_name)
                 THEN IF field_type.multiple
                      THEN DictPut(fields, field_name, List(<<>>))
                      ELSE DictPut(fields, field_name, None)
                 ELSE fields)

\* kwargs.update(fields)
RECURSIVE DictUpdate(_, _)
DictUpdate(d, other) ==
    IF other = <<>> THEN d
    ELSE DictUpdate(DictPut(d, other[1][1], other[1][2]), Tail(other))

\* the keyword arguments beyond text, type_name and the two positions
node_kwargs(self, frame) ==
    DictUpdate(IF node_has_children(self, frame.type_name).value
               THEN <<<<"children", List(frame.children)>>>>
               ELSE <<>>,
               frame.fields)

\* the slots of a class that its __init__ takes beyond those of Node, and
\* those among them that have a default
InitSlots(cls) == DictKeySet(cls.slots)
DefaultSlots(cls) == IF cls.kind = "ParseError" THEN {"contents", "filename"} ELSE {}

NodeValue(cls, frame, attrs) ==
    [tag |-> "node", cls |-> <<cls.serial, cls.name>>,
     text |-> frame.text, type_name |-> frame.type_name,
     start_position |-> frame.start_position,
     end_position |-> frame.end_position,
     attrs |-> attrs]

\* cls(**kwargs): the __init__ that dataclass generates
Instantiate(cls, frame, kwargs) ==
    IF \E k \in DictKeySet(kwargs) : k \notin InitSlots(cls)
    THEN Raised("TypeError", <<"__init__() got an unexpected keyword argument">>)
    ELSE IF \E k \in InitSlots(cls) \ DefaultSlots(cls) : ~DictHas(kwargs, k)
    THEN Raised("TypeError", <<"__init__() missing required positional arguments">>)
    ELSE Ok(NodeValue(cls, frame,
                      [k \in InitSlots(cls) |->
                          IF DictHas(kwargs, k) THEN DictGet(kwargs, k) ELSE None]))

\* create_node with contents taken from the node itself, not from the root
create_node_own_text(self, tr, frame, raise_parse_error, filename) ==
    IF raise_parse_error /\ frame.type_name = ERROR
    THEN Raised("ParseError",
                NodeValue(ParseErrorClass, frame,
                          [k \in {"children", "contents", "filename"} |->
                              CASE k = "children" -> List(frame.children)
                                [] k = "contents" -> Str(frame.text)
                                [] k = "filename" -> filename]))
    ELSE Instantiate(node_class(self, frame.type_name).value, frame,
                     node_kwargs(self, frame))

\* "Create node instance" and "Return the node" (lines 209-240)
create_node(self, tr, frame, raise_parse_error, filename) ==
    IF raise_parse_error /\ frame.type_name = ERROR
    THEN Raised("ParseError",
                NodeValue(ParseErrorClass, frame,
                          [k \in {"children", "contents", "filename"} |->
                              CASE k = "children" -> List(frame.children)
                                [] k = "contents" -> Str(root_node_text(tr, frame.path))
                                [] k = "filename" -> filename]))
    ELSE Instantiate(node_class(self, frame.type_name).value, frame,
                     node_kwargs(self, frame))

(***************************************************************************)
(* node_types.py: is_equivalent                                            *)
(***************************************************************************)
HasAttr(node, name) == name \in DOMAIN node.attrs

\* type(node): the class among those of the provider that built the node
ClassOf(self, node) ==
    LET classes == DictValues(self.node_classes_by_type)
        same(c) == <<c.serial, c.name>> = node.cls
    IN  IF \E i \in 1..Len(classes) : same(classes[i])
        THEN classes[CHOOSE i \in 1..Len(classes) : same(classes[i])]
        ELSE NodeClass

Max(a, b) == IF a >= b THEN a ELSE b

RECURSIVE assert_equivalent(_, _, _)
RECURSIVE NodeType_assert_equivalent(_, _, _, _)
RECURSIVE NodeArgsType_assert_equivalent(_, _, _, _)

\* node.assert_equivalent(other): TRUE when no assertion fails.  Only the
\* classes that as_type makes with make_dataclass override Node's method
assert_equivalent(self, node, other) ==
    IF ClassOf(self, node).kind = "dataclass"
    THEN NodeType_assert_equivalent(self, ClassOf(self, node).node_type, node, other)
    ELSE TRUE

\* NodeType.assert_equivalent
NodeType_assert_equivalent(self, node_type, node1, node2) ==
    IF has_content(node_type)
    THEN /\ HasAttr(node1, "children") =>
               /\ HasAttr(node2, "children")
               /\ NodeArgsType_assert_equivalent(self, node_type.children,
                      node1.attrs["children"], node2.attrs["children"])
         /\ \A i \in 1..Len(node_type.fields) :
               LET field_name == node_type.fields[i][1]
                   field_type == node_type.fields[i][2]
               IN  IF HasAttr(node1, field_name)
                   THEN /\ HasAttr(node2, field_name)
                        /\ NodeArgsType_assert_equivalent(self, field_type,
                               node1.attrs[field_name], node2.attrs[field_name])
                   ELSE ~HasAttr(node2, field_name)
    ELSE node1.text = node2.text

\* NodeArgsType.assert_equivalent
NodeArgsType_assert_equivalent(self, args, node1, node2) ==
    IF args_named(args)
    THEN IF node1.tag = "None" THEN node2.tag = "None"
         ELSE IF node1.tag = "node"
         THEN node2.tag = "node" /\ assert_equivalent(self, node1, node2)
         ELSE /\ node2.tag = "list"
              /\ \A i \in 1..Max(Len(node1.items), Len(node2.items)) :
                    /\ i <= Len(node1.items) /\ node1.items[i].tag = "node"
                    /\ i <= Len(node2.items) /\ node2.items[i].tag = "node"
                    /\ assert_equivalent(self, node1.items[i], node2.items[i])
    ELSE TRUE

\* Node.is_equivalent
is_equivalent(self, node, other) == assert_equivalent(self, node, other)

(***************************************************************************)
(* Inputs                                                                  *)
(***************************************************************************)
T_num == <<"n","u","m">>
T_list == <<"l","i","s","t">>
T_fn_call == <<"f","n","_","c","a","l","l">>
T_expr == <<"e","x","p","r">>
T_stmt == <<"s","t","m","t">>
T_com == <<"c","o","m">>
T_bogus == <<"b","o","g","u","s">>
T_minus == <<"-">>

NumSimple == SimpleNodeType(T_num, TRUE)

\* schema entries as node-types.json of a grammar states them
NumType == NodeType(T_num, TRUE, <<>>, NoArgs, <<>>)
ListType ==
    NodeType(T_list, TRUE,
             <<<<"item", NodeArgsType(TRUE, FALSE, <<NumSimple>>)>>,
               <<"key", NodeArgsType(FALSE, FALSE, <<NumSimple>>)>>>>,
             NoArgs, <<>>)
FnCallType ==
    NodeType(T_fn_call, TRUE,
             <<<<"item", NodeArgsType(TRUE, TRUE, <<NumSimple>>)>>,
               <<"key", NodeArgsType(FALSE, TRUE, <<NumSimple>>)>>,
               <<"op", NodeArgsType(FALSE, TRUE, <<SimpleNodeType(T_minus, FALSE)>>)>>>>,
             NodeArgsType(FALSE, TRUE, <<NumSimple>>), <<>>)
ExprType ==
    NodeType(T_expr, TRUE, <<>>, NoArgs,
             <<NumSimple, SimpleNodeType(T_list, TRUE), SimpleNodeType(T_fn_call, TRUE)>>)
StmtType ==
    NodeType(T_stmt, TRUE, <<>>, NoArgs,
             <<SimpleNodeType(T_expr, TRUE), NumSimple, SimpleNodeType(T_minus, FALSE)>>)
MinusType == NodeType(T_minus, FALSE, <<>>, NoArgs, <<>>)
CallerErrorType ==
    NodeType(ERROR, TRUE,
             <<<<"key", NodeArgsType(FALSE, FALSE, <<NumSimple>>)>>>>, NoArgs, <<>>)

Given(node_types, extra) == [node_types |-> node_types, extra |-> extra]

\* the constructor arguments under which trees are converted
ConvInputs ==
    { Given(<<ExprType, NumType, ListType, FnCallType, MinusType>>, <<T_com>>),
      Given(<<CallerErrorType, NumType, MinusType>>, <<T_num, ERROR>>),
      Given(<<>>, <<>>) }

\* what the parser may report for a node
TsNodes ==
    { TsNode(T_num, TRUE, NoField, <<"1">>),
      TsNode(T_num, TRUE, <<"item">>, <<"1">>),
      TsNode(T_num, TRUE, <<"key">>, <<"1">>),
      TsNode(T_list, TRUE, NoField, <<"[", "]">>),
      TsNode(T_fn_call, TRUE, NoField, <<"f", "(", ")">>),
      TsNode(ERROR, TRUE, NoField, <<"?">>),
      TsNode(T_bogus, TRUE, NoField, <<"b">>),
      TsNode(T_minus, FALSE, NoField, <<"-">>) }

Filenames == { Str(<<"a", ".", "t">>) }

LookupNames == {T_num, T_list, T_fn_call, T_expr, T_stmt, T_com, T_bogus, T_minus, ERROR}

\* the arguments of __init__: up to MaxEntries different entries of the pool,
\* in any order, with one of three extra lists
ComType == NodeType(T_com, TRUE, <<>>, NoArgs, <<>>)
Pool == {e \in {ExprType, StmtType, NumType, ListType, FnCallType, MinusType,
                CallerErrorType, ComType} : post_init(e)}

RECURSIVE Arrangements(_)
Arrangements(n) ==
    IF n = 0 THEN {<<>>}
    ELSE LET shorter == Arrangements(n - 1)
         IN  shorter \cup
             {Append(a, e) : <<a, e>> \in
                 {x \in shorter \X Pool :
                     Len(x[1]) = n - 1 /\ \A i \in 1..Len(x[1]) : x[1][i] # x[2]}}

ExtraLists == {<<>>, <<T_com>>, <<T_num, ERROR>>}

InitInputs == {Given(a, extra) : a \in Arrangements(MaxEntries), extra \in ExtraLists}

\* the arguments of NodeType(...): a children contract may be multiple and
\* still list no type
SchemaNames == {T_num, T_expr}
SchemaFields ==
    {<<>>, <<<<"key", NodeArgsType(FALSE, FALSE, <<NumSimple>>)>>>>}
SchemaChildren ==
    {NoArgs, NodeArgsType(TRUE, FALSE, <<>>), NodeArgsType(FALSE, TRUE, <<NumSimple>>)}
SchemaSubtypes == {<<>>, <<NumSimple>>}

\* the ParseError objects to render: a source text of up to MaxLen characters,
\* or the text "foo(bar", with the points of a region of it as the parser
\* counts them (row = number of "\n" before, column within the row)
RECURSIVE Texts(_)
Texts(n) ==
    IF n = 0 THEN {<<>>}
    ELSE Texts(n - 1) \cup
         {Append(t, c) : <<t, c>> \in {x \in Texts(n - 1) \X {"a", "\n"} : Len(x[1]) = n - 1}}

FooBar == <<"f", "o", "o", "(", "b", "a", "r">>
SourceTexts == Texts(MaxLen) \cup {FooBar}

Rows(s) == Split(s, "\n")
Points(s) ==
    {pt \in [line : 0..Len(s), column : 0..Len(s)] :
        /\ pt.line < Len(Rows(s))
        /\ pt.column <= Len(Rows(s)[pt.line + 1])}
NotAfter(p, q) == p.line < q.line \/ (p.line = q.line /\ p.column <= q.column)

RECURSIVE IndexOfPoint(_, _)
IndexOfPoint(s, pt) ==
    IF pt.line = 0 THEN pt.column
    ELSE Len(Rows(s)[1]) + 1
         + IndexOfPoint(SubSeq(s, Len(Rows(s)[1]) + 2, Len(s)),
                        [pt EXCEPT !.line = @ - 1])

ParseErrorValue(text, start_position, end_position, contents) ==
    [tag |-> "node", cls |-> <<ParseErrorClass.serial, ParseErrorClass.name>>,
     text |-> text, type_name |-> ERROR,
     start_position |-> start_position, end_position |-> end_position,
     attrs |-> [k \in {"children", "contents", "filename"} |->
                  CASE k = "children" -> List(<<>>)
                    [] k = "contents" -> contents
                    [] k = "filename" -> None]]

ErrorInputs ==
    {ParseErrorValue(SubSeq(x[1], IndexOfPoint(x[1], x[2]) + 1, IndexOfPoint(x[1], x[3])),
                     x[2], x[3], Str(x[1])) :
        x \in {y \in SourceTexts \X [line : 0..MaxLen, column : 0..Len(FooBar)]
                                  \X [line : 0..MaxLen, column : 0..Len(FooBar)] :
                  /\ y[2] \in Points(y[1])
                  /\ y[3] \in Points(y[1])
                  /\ NotAfter(y[2], y[3])}}
    \cup {ParseErrorValue(<<"?">>, [line |-> 0, column |-> 0],
                          [line |-> 0, column |-> 1], None)}

(***************************************************************************)
(* Actions                                                                 *)
(***************************************************************************)
NoResult == [kind |-> "none", value |-> <<>>]
NoCall == [raise_parse_error |-> FALSE, filename |-> None]
NoLook == [name |-> <<>>, node_type |-> NoResult, node_class |-> NoResult]
NoError == [tag |-> "None"]

Top == stack[Len(stack)]

InitRest ==
    /\ provider = NoProvider
    /\ looked = NoLook
    /\ tree = <<>>
    /\ closed = {}
    /\ call = NoCall
    /\ cursor = <<>>
    /\ stack = <<>>
    /\ pc = "idle"
    /\ result = NoResult
    /\ rendered = NoResult

Init ==
    /\ given \in ConvInputs
    /\ error = NoError
    /\ InitRest

\* the arguments are any of InitInputs; nothing is converted
InitRegistry ==
    /\ given \in InitInputs
    /\ error = NoError
    /\ InitRest

\* no NodeType is built yet; the extra list is fixed
InitSchema ==
    /\ given = Given(<<>>, <<T_com>>)
    /\ error = NoError
    /\ InitRest

\* a ParseError object is at hand
InitRender ==
    /\ given = Given(<<>>, <<>>)
    /\ error \in ErrorInputs
    /\ InitRest

\* TreeSitterTypeProvider(module_name, node_types, extra=extra)
Construct ==
    /\ ~provider.constructed
    /\ provider' = ProviderInit(given.node_types, given.extra)
    /\ UNCHANGED <<given, looked, tree, closed, call, cursor, stack, pc,
                   result, error, rendered>>

\* provider._node_type(name) and provider._node_class(name), called directly
Lookup ==
    /\ provider.constructed
    /\ pc = "idle"
    /\ result.kind = "none"
    /\ \E name \in LookupNames :
         looked' = [name |-> name,
                    node_type |-> node_type_of(provider, name),
                    node_class |-> node_class(provider, name)]
    /\ UNCHANGED <<given, provider, tree, closed, call, cursor, stack, pc,
                   result, error, rendered>>

\* an exception leaves every activation
Abort(exc) ==
    /\ result' = exc
    /\ stack' = <<>>
    /\ pc' = "idle"

\* the activation on the node at path starts (the call of line 141 or 170)
Activate(tr, path, field_name) ==
    LET entered == EnterNode(provider, tr, path, field_name)
    IN  IF entered.kind = "ok"
        THEN /\ stack' = Append(stack, entered.value)
             /\ pc' = "goto_first_child"
             /\ UNCHANGED result
        ELSE Abort(entered)

\* provider.from_tree_sitter(tree, filename=..., raise_parse_error=...)
\* (lines 129-146) up to the first cursor movement
FromTreeSitter ==
    /\ provider.constructed
    /\ pc = "idle"
    /\ result.kind = "none"
    /\ \E raise_parse_error \in BOOLEAN, filename \in Filenames, root \in TsNodes :
         /\ call' = [raise_parse_error |-> raise_parse_error, filename |-> filename]
         /\ tree' = <<<<<<>>, root>>>>
         /\ Activate(tree', <<>>, NoField)
    /\ cursor' = <<>>
    /\ looked' = NoLook
    /\ UNCHANGED <<given, provider, closed, error, rendered>>

\* the cursor arrived on the node at path (lines 194-195, 197-198)
Arrive(tr, path) ==
    /\ cursor' = path
    /\ IF DictGet(tr, path).is_named
       THEN Activate(tr, path, DictGet(tr, path).field)
       ELSE /\ pc' = "goto_next_sibling"
            /\ UNCHANGED <<stack, result>>

\* the cursor tries to move to the node at path, a child of the node at
\* parent; the tree has that node, or is known not to have it, or the parser
\* now reports which
Move(path, parent, NoSuchNode) ==
    IF DictHas(tree, path)
    THEN /\ Arrive(tree, path)
         /\ UNCHANGED <<tree, closed>>
    ELSE IF parent \in closed
    THEN /\ NoSuchNode
         /\ UNCHANGED <<tree, closed>>
    ELSE \/ /\ closed' = closed \cup {parent}
            /\ NoSuchNode
            /\ UNCHANGED tree
         \/ /\ Len(tree) < MaxNodes
            /\ \E tsnode \in TsNodes :
                 /\ tree' = Append(tree, <<path, tsnode>>)
                 /\ Arrive(tree', path)
            /\ UNCHANGED closed

\* if tscursor.goto_first_child(): ... (lines 193-195)
GotoFirstChild ==
    /\ pc = "goto_first_child"
    /\ Move(FirstChild(cursor), cursor,
            /\ pc' = "optional_fields"
            /\ UNCHANGED <<cursor, stack, result>>)
    /\ UNCHANGED <<given, provider, looked, call, error, rendered>>

\* GotoNextSibling without the goto_parent of line 199
GotoNextSibling_no_parent ==
    /\ pc = "goto_next_sibling"
    /\ Move(NextSibling(cursor), Parent(cursor),
            /\ pc' = "optional_fields"
            /\ UNCHANGED <<cursor, stack, result>>)
    /\ UNCHANGED <<given, provider, looked, call, error, rendered>>

\* while tscursor.goto_next_sibling(): ...; assert tscursor.goto_parent()
\* (lines 196-199)
GotoNextSibling ==
    /\ pc = "goto_next_sibling"
    /\ Move(NextSibling(cursor), Parent(cursor),
            /\ cursor' = Parent(cursor)
            /\ pc' = "optional_fields"
            /\ UNCHANGED <<stack, result>>)
    /\ UNCHANGED <<given, provider, looked, call, error, rendered>>

\* "Handle optional fields" (lines 201-207)
OptionalFields ==
    /\ pc = "optional_fields"
    /\ stack' = [stack EXCEPT ![Len(stack)].fields =
                    optional_fields(Top.node_type.fields, @)]
    /\ pc' = "create_node"
    /\ UNCHANGED <<given, provider, looked, tree, closed, call, cursor,
                   result, error, rendered>>

\* "Create node instance", the return, and the rest of the caller's
\* convert_child (lines 209-240, 176-191)
CreateNode ==
    /\ pc = "create_node"
    /\ LET made == create_node(provider, tree, Top, call.raise_parse_error,
                               call.filename)
       IN  IF made.kind # "ok"
           THEN Abort(made)
           ELSE IF Len(stack) = 1
           THEN /\ result' = made
                /\ stack' = <<>>
                /\ pc' = "idle"
           ELSE LET stored == convert_child(stack[Len(stack) - 1], Top.field_name,
                                            made.value)
                IN  IF stored.kind = "ok"
                    THEN /\ stack' = Append(SubSeq(stack, 1, Len(stack) - 2),
                                            stored.value)
                         /\ pc' = "goto_next_sibling"
                         /\ UNCHANGED result
                    ELSE Abort(stored)
    /\ UNCHANGED <<given, provider, looked, tree, closed, call, cursor,
                   error, rendered>>

Next ==
    \/ Construct
    \/ Lookup
    \/ FromTreeSitter
    \/ GotoFirstChild
    \/ GotoNextSibling
    \/ OptionalFields
    \/ CreateNode

Spec == Init /\ [][Next]_vars

NextRegistry ==
    \/ Construct
    \/ Lookup

SpecInit == InitRegistry /\ [][NextRegistry]_vars

\* NodeType(type_name, named, fields, children, subtypes), appended to the
\* schema under construction when it is built
MakeNodeType ==
    /\ ~provider.constructed
    /\ Len(given.node_types) < MaxEntries
    /\ \E type_name \in SchemaNames, named \in BOOLEAN, fields \in SchemaFields,
          children \in SchemaChildren, subtypes \in SchemaSubtypes :
         /\ \A i \in 1..Len(given.node_types) :
               given.node_types[i].type_name # type_name
         /\ LET made == new_NodeType(type_name, named, fields, children, subtypes)
            IN  /\ result' = made
                /\ given' = IF made.kind = "ok"
                            THEN [given EXCEPT !.node_types = Append(@, made.value)]
                            ELSE given
    /\ UNCHANGED <<provider, looked, tree, closed, call, cursor, stack, pc,
                   error, rendered>>

NextSchema ==
    \/ MakeNodeType
    \/ Construct

SpecSchema == InitSchema /\ [][NextSchema]_vars

\* error._annotated_region()
Render ==
    /\ error # NoError
    /\ rendered = NoResult
    /\ rendered' = Ok(annotated_region(error))
    /\ UNCHANGED <<given, provider, looked, tree, closed, call, cursor, stack,
                   pc, result, error>>

NextRender == Render

SpecRender == InitRender /\ [][NextRender]_vars

(***************************************************************************)
(* What the tree holds, for stating the properties                         *)
(***************************************************************************)
Done == pc = "idle" /\ result.kind # "none"

KidCount(tr, path) ==
    Cardinality({q \in DictKeySet(tr) : Len(q) = Len(path) + 1 /\ Parent(q) = path})

\* the children of the node at path, in sibling order
Kids(tr, path) == [i \in 1..KidCount(tr, path) |-> Append(path, i)]

\* its named children that the cursor reports under the field, or under none
FieldKids(tr, path, field) ==
    SelectSeq(Kids(tr, path),
              LAMBDA q : DictGet(tr, q).is_named /\ DictGet(tr, q).field = field)

\* value is the node that the conversion of the tree node at q gives
IsConversionOf(value, tr, q) ==
    /\ value.tag = "node"
    /\ value.type_name = DictGet(tr, q).type
    /\ value.text = DictGet(tr, q).text
    /\ value.start_position = Point_from_tree_sitter(start_point(q))
    /\ value.end_position = Point_from_tree_sitter(end_point(q))

\* value is the list of the conversions of the tree nodes at paths, in order
IsListOf(value, tr, paths) ==
    /\ value.tag = "list"
    /\ Len(value.items) = Len(paths)
    /\ \A j \in 1..Len(paths) : IsConversionOf(value.items[j], tr, paths[j])

(***************************************************************************)
(* C1                                                                      *)
(***************************************************************************)
\* C1 as stated: once the children of a node are traversed, a multiple field
\* that occurred once holds the converted child itself, one that occurred two
\* or three times holds the list of the converted children in traversal
\* order, and one that did not occur holds the empty list or nothing.
C1_SingleOccurrenceIsBare ==
    pc = "create_node" =>
        \A i \in 1..Len(Top.node_type.fields) :
            LET field_name == Top.node_type.fields[i][1]
                kids == FieldKids(tree, Top.path, <<field_name>>)
            IN  Top.node_type.fields[i][2].multiple =>
                   CASE Len(kids) = 0 ->
                            \/ ~DictHas(Top.fields, field_name)
                            \/ DictGet(Top.fields, field_name) = List(<<>>)
                     [] Len(kids) = 1 ->
                            /\ DictHas(Top.fields, field_name)
                            /\ IsConversionOf(DictGet(Top.fields, field_name), tree, kids[1])
                     [] OTHER ->
                            /\ DictHas(Top.fields, field_name)
                            /\ IsListOf(DictGet(Top.fields, field_name), tree, kids)

\* C1 amended: once the children of a node are traversed, a multiple field
\* that occurred k >= 1 times holds a flat list of the k converted children in
\* traversal order (a one-element list when k = 1), and one that did not
\* occur holds the empty list (optional) or nothing (required).
C1_MultipleFieldIsFlatList ==
    pc = "create_node" =>
        \A i \in 1..Len(Top.node_type.fields) :
            LET field_name == Top.node_type.fields[i][1]
                field_type == Top.node_type.fields[i][2]
                kids == FieldKids(tree, Top.path, <<field_name>>)
            IN  field_type.multiple =>
                   IF Len(kids) = 0
                   THEN IF field_type.required
                        THEN ~DictHas(Top.fields, field_name)
                        ELSE /\ DictHas(Top.fields, field_name)
                             /\ DictGet(Top.fields, field_name) = List(<<>>)
                   ELSE /\ DictHas(Top.fields, field_name)
                        /\ IsListOf(DictGet(Top.fields, field_name), tree, kids)

\* a list node whose field item occurred three times has been traversed
C1_Witness ==
    /\ pc = "create_node"
    /\ Top.type_name = T_list
    /\ Len(FieldKids(tree, Top.path, <<"item">>)) = 3
    /\ DictHas(Top.fields, "item")
    /\ Len(DictGet(Top.fields, "item").items) = 3

(***************************************************************************)
(* The nodes a conversion has produced                                     *)
(***************************************************************************)
RECURSIVE SubNodes(_)
SubNodes(value) ==
    CASE value.tag = "node" ->
             {value} \cup UNION {SubNodes(value.attrs[k]) : k \in DOMAIN value.attrs}
      [] value.tag = "list" ->
             UNION {SubNodes(value.items[i]) : i \in 1..Len(value.items)}
      [] OTHER -> {}

FrameNodes(frame) ==
    SubNodes(List(frame.children))
        \cup UNION {SubNodes(frame.fields[i][2]) : i \in 1..Len(frame.fields)}

Produced ==
    (IF result.kind \in {"ok", "ParseError"} THEN SubNodes(result.value) ELSE {})
        \cup UNION {FrameNodes(stack[i]) : i \in 1..Len(stack)}

EntryOf(node) == DictGet(provider.node_types_by_type, node.type_name)

(***************************************************************************)
(* C2                                                                      *)
(***************************************************************************)
\* C2: is_equivalent gives the same answer in both directions for any two
\* nodes that a conversion produced.
C2_IsEquivalentSymmetric ==
    \A a \in Produced : \A b \in Produced :
        is_equivalent(provider, a, b) = is_equivalent(provider, b, a)

(***************************************************************************)
(* C3                                                                      *)
(***************************************************************************)
Present(node, name) == HasAttr(node, name) /\ node.attrs[name].tag # "None"

\* the two values differ in the text of corresponding leaf nodes, in the
\* length of corresponding children sequences or in the presence of a field
RECURSIVE Mismatch(_, _)
Mismatch(v1, v2) ==
    IF v1.tag = "node" /\ v2.tag = "node"
    THEN \/ /\ ~has_content(EntryOf(v1))
            /\ ~has_content(EntryOf(v2))
            /\ v1.text # v2.text
         \/ /\ HasAttr(v1, "children")
            /\ HasAttr(v2, "children")
            /\ Mismatch(v1.attrs["children"], v2.attrs["children"])
         \/ /\ has_content(EntryOf(v1))
            /\ \E i \in 1..Len(EntryOf(v1).fields) :
                  LET name == EntryOf(v1).fields[i][1]
                  IN  \/ Present(v1, name) # Present(v2, name)
                      \/ /\ Present(v1, name)
                         /\ Present(v2, name)
                         /\ Mismatch(v1.attrs[name], v2.attrs[name])
    ELSE IF v1.tag = "list" /\ v2.tag = "list"
    THEN \/ Len(v1.items) # Len(v2.items)
         \/ \E i \in 1..Len(v1.items) : Mismatch(v1.items[i], v2.items[i])
    ELSE FALSE

\* C3: two produced nodes that differ in the text of corresponding leaves, in
\* the length of corresponding children sequences or in the presence of a
\* declared field are not equivalent.
C3_MismatchIsInequivalent ==
    \A a \in Produced : \A b \in Produced :
        Mismatch(a, b) => ~is_equivalent(provider, a, b)

(***************************************************************************)
(* C4                                                                      *)
(***************************************************************************)
IsErrorNode(tr, q) == DictGet(tr, q).is_named /\ DictGet(tr, q).type = ERROR
TreeHasError == \E q \in DictKeySet(tree) : IsErrorNode(tree, q)

IsProperPrefix(p, q) == Len(p) < Len(q) /\ SubSeq(q, 1, Len(p)) = p

\* every ancestor of q keeps its children (its entry has content)
Kept(tr, q) ==
    \A p \in DictKeySet(tr) :
        IsProperPrefix(p, q) => node_has_children(provider, DictGet(tr, p).type).value

\* value is the ParseError of the ERROR node at q: its text, coordinates and
\* positional children, the text of the root and the filename of the call
Carries(value, q) ==
    /\ IsConversionOf(value, tree, q)
    /\ HasAttr(value, "children")
    /\ IsListOf(value.attrs["children"], tree, FieldKids(tree, q, NoField))
    /\ value.attrs["contents"] = Str(DictGet(tree, <<>>).text)
    /\ value.attrs["filename"] = call.filename

NamedGiven ==
    {given.node_types[i].type_name :
        i \in {j \in 1..Len(given.node_types) : given.node_types[j].named}}
Registered == NamedGiven \cup {given.extra[i] : i \in 1..Len(given.extra)} \cup {ERROR}

C8_Registry ==
    provider.constructed =>
        /\ DictKeySet(provider.node_types_by_type) = Registered
        /\ DictKeySet(provider.node_classes_by_type) = Registered
        /\ \A name \in Registered :
              LET node_type == DictGet(provider.node_types_by_type, name)
                  cls == DictGet(provider.node_classes_by_type, name)
              IN  /\ node_type.type_name = name
                  /\ node_type.named
                  /\ IF name = ERROR
                     THEN /\ cls = ParseErrorClass
                          /\ node_type.fields = <<>>
                          /\ node_type.subtypes = <<>>
                          /\ node_type.children =
                                NodeArgsType(TRUE, TRUE, given.node_types)
                     ELSE /\ cls.name = snake_to_pascal(name)
                          /\ cls.kind \in {"dataclass", "abstract"}
                          /\ IF name \in NamedGiven
                             THEN \E i \in 1..Len(given.node_types) :
                                     given.node_types[i] = node_type
                             ELSE node_type = NodeType(name, TRUE, <<>>, NoArgs, <<>>)
        /\ \A name \in LookupNames :
              IF name \in Registered
              THEN /\ node_type_of(provider, name).kind = "ok"
                   /\ node_class(provider, name).kind = "ok"
              ELSE /\ node_type_of(provider, name) = Raised("NodeTypeError", name)
                   /\ node_class(provider, name) = Raised("NodeTypeError", name)
        /\ (looked.name # <<>> /\ looked.name \notin Registered) =>
              /\ looked.node_type = Raised("NodeTypeError", looked.name)
              /\ looked.node_class = Raised("NodeTypeError", looked.name)
        /\ \A q \in DictKeySet(tree) :
              (DictGet(tree, q).is_named /\ DictGet(tree, q).type \notin Registered) =>
                  /\ pc = "idle"
                  /\ result = Raised("NodeTypeError", DictGet(tree, q).type)
        /\ result.kind = "NodeTypeError" => result.value \notin Registered

\* C8: once constructed, the registry holds an entry and a constructor for
\* exactly the named schema entries, the extra names (a named leaf when the
\* schema has none) and ERROR (the synthesized entry, bound to ParseError);
\* a lookup of any other name, direct or during a conversion, ends with
\* NodeTypeError; and no step changes the registry.
C8_RegistryClosedAndFrozen ==
    /\ []C8_Registry
    /\ [][provider.constructed => provider' = provider]_vars

\* a conversion met a type name that the registry, which has a synthesized
\* extra entry, does not hold
C8_Witness ==
    /\ provider.constructed
    /\ result.kind = "NodeTypeError"
    /\ T_com \in DictKeySet(provider.node_types_by_type)
    /\ T_com \notin NamedGiven

(***************************************************************************)
(* C9                                                                      *)
(***************************************************************************)
\* C9 as stated: after the traversal a declared field that no named child
\* populated is unset if required, and the construction is then rejected; it
\* is None if optional and not multiple, the empty list if optional and
\* multiple; a populated field holds no default.
C9_UnpopulatedRequiredIsRejected ==
    pc = "create_node" =>
        \A i \in 1..Len(Top.node_type.fields) :
            LET field_name == Top.node_type.fields[i][1]
                field_type == Top.node_type.fields[i][2]
                kids == FieldKids(tree, Top.path, <<field_name>>)
            IN  IF Len(kids) = 0
                THEN IF field_type.required
                     THEN /\ ~DictHas(Top.fields, field_name)
                          /\ create_node(provider, tree, Top, call.raise_parse_error,
                                         call.filename).kind = "TypeError"
                     ELSE /\ DictHas(Top.fields, field_name)
                          /\ DictGet(Top.fields, field_name) =
                                IF field_type.multiple THEN List(<<>>) ELSE None
                ELSE /\ DictHas(Top.fields, field_name)
                     /\ DictGet(Top.fields, field_name) # None
                     /\ DictGet(Top.fields, field_name) # List(<<>>)

\* C9 amended: as C9, but the construction is rejected for an unset required
\* field only when the field lists a named type (only then has the class a
\* slot for it).
C9_UnpopulatedFieldDefaults ==
    pc = "create_node" =>
        \A i \in 1..Len(Top.node_type.fields) :
            LET field_name == Top.node_type.fields[i][1]
                field_type == Top.node_type.fields[i][2]
                kids == FieldKids(tree, Top.path, <<field_name>>)
            IN  IF Len(kids) = 0
                THEN IF field_type.required
                     THEN /\ ~DictHas(Top.fields, field_name)
                          /\ args_named(field_type) =>
                                create_node(provider, tree, Top, call.raise_parse_error,
                                            call.filename).kind = "TypeError"
                     ELSE /\ DictHas(Top.fields, field_name)
                          /\ DictGet(Top.fields, field_name) =
                                IF field_type.multiple THEN List(<<>>) ELSE None
                ELSE /\ DictHas(Top.fields, field_name)
                     /\ DictGet(Top.fields, field_name) # None
                     /\ DictGet(Top.fields, field_name) # List(<<>>)

\* a fn_call node with item and key populated and the required field op, which
\* lists no named type, unset is about to be constructed
C9_Witness ==
    /\ pc = "create_node"
    /\ Top.type_name = T_fn_call
    /\ Len(FieldKids(tree, Top.path, <<"item">>)) >= 1
    /\ Len(FieldKids(tree, Top.path, <<"key">>)) >= 1
    /\ ~DictHas(Top.fields, "op")
    /\ create_node(provider, tree, Top, call.raise_parse_error, call.filename).kind = "ok"

(***************************************************************************)
(* C10                                                                     *)
(***************************************************************************)
TsTypes == {tsnode.type : tsnode \in TsNodes}

\* C10: a call on an anonymous root ends with TypeError(type of the root) and
\* no node; an anonymous node below the root is neither converted nor
\* descended into, and that TypeError ends no call on a named root.
C10_AnonymousRootOnly ==
    tree # <<>> =>
        /\ (Done /\ ~DictGet(tree, <<>>).is_named) =>
              /\ result = Raised("TypeError", DictGet(tree, <<>>).type)
              /\ Len(tree) = 1
        /\ (result.kind = "TypeError" /\ result.value \in TsTypes) =>
              ~DictGet(tree, <<>>).is_named
        /\ \A q \in DictKeySet(tree) :
              (q # <<>> /\ ~DictGet(tree, q).is_named) =>
                  /\ KidCount(tree, q) = 0
                  /\ \A i \in 1..Len(stack) : stack[i].path # q
                  /\ \A n \in Produced : ~IsConversionOf(n, tree, q)

\* the call on an anonymous root has ended
C10_Witness ==
    /\ Done
    /\ ~DictGet(tree, <<>>).is_named
    /\ result.kind = "TypeError"

(***************************************************************************)
(* C5                                                                      *)
(***************************************************************************)
Entries == DictValues(provider.node_types_by_type)

\* C5: once the registry is built, the class registered for a named subtype
\* that an abstract entry lists has among its bases the class that the
\* registry exposes under the abstract entry's class name.
C5_SubtypeCarriesExposedMarker ==
    provider.constructed =>
        \A i \in 1..Len(Entries) :
            is_abstract(Entries[i]) =>
                \A j \in 1..Len(Entries[i].subtypes) :
                    LET subtype == Entries[i].subtypes[j]
                        exposed == DictGet(provider.attrs,
                                           snake_to_pascal(Entries[i].type_name))
                    IN  (subtype.named
                            /\ DictHas(provider.node_classes_by_type, subtype.type_name)) =>
                        LET cls == DictGet(provider.node_classes_by_type,
                                           subtype.type_name)
                        IN  \E b \in 1..Len(cls.bases) : cls.bases[b] = exposed

(***************************************************************************)
(* C6                                                                      *)
(***************************************************************************)
ExtraClassNames ==
    {snake_to_pascal(provider.extra[i].type_name) : i \in 1..Len(provider.extra)}

SeqRange(seq) == {seq[i] : i \in 1..Len(seq)}

\* C6: in the class of every entry with content, the children slot is a list
\* that accepts the class of every extra type and of ERROR, whatever the
\* entry's own children contract; the slot of a field accepts only classes of
\* the types that the field lists and is a list, a bare value or an optional
\* value as the field is multiple, required or neither.
C6_ChildrenAcceptExtrasFieldsDoNot ==
    provider.constructed =>
        /\ \E i \in 1..Len(provider.extra) : provider.extra[i].type_name = ERROR
        /\ \A i \in 1..Len(Entries) :
              LET node_type == Entries[i]
                  cls == DictGet(provider.node_classes_by_type, node_type.type_name)
              IN  (has_content(node_type) /\ ~is_abstract(node_type)) =>
                    /\ DictHas(cls.slots, "children")
                    /\ DictGet(cls.slots, "children").kind = "List"
                    /\ IF node_type.type_name = ERROR
                       THEN DictGet(cls.slots, "children").of = <<NodeClass.name>>
                       ELSE ExtraClassNames
                               \subseteq SeqRange(DictGet(cls.slots, "children").of)
                    /\ \A f \in 1..Len(node_type.fields) :
                          LET field_name == node_type.fields[f][1]
                              field == node_type.fields[f][2]
                              own == {snake_to_pascal(field.types[t].type_name) :
                                         t \in {u \in 1..Len(field.types) :
                                                   field.types[u].named}}
                          IN  DictHas(cls.slots, field_name) =>
                                /\ SeqRange(DictGet(cls.slots, field_name).of) = own
                                /\ DictGet(cls.slots, field_name).kind =
                                      IF field.multiple THEN "List"
                                      ELSE IF field.required THEN "Bare"
                                      ELSE "Optional"

\* the registry is built from a schema whose fn_call entry has a children
\* contract that is not multiple and a field that lists num only, with the
\* extra type com, which the schema does not declare
C6_Witness ==
    /\ provider.constructed
    /\ DictHas(provider.node_classes_by_type, T_fn_call)
    /\ DictHas(provider.node_classes_by_type, T_com)
    /\ T_com \notin NamedGiven
    /\ ~DictGet(provider.node_types_by_type, T_fn_call).children.multiple
    /\ DictHas(DictGet(provider.node_classes_by_type, T_fn_call).slots, "key")

(***************************************************************************)
(* C7                                                                      *)
(***************************************************************************)
Rendered == rendered.kind = "ok" /\ Truthy(error.attrs["contents"])
Output == Split(rendered.value, "\n")
CaretLine == <<" ", " ", " ", "^", "^", "^", "^">>

\* C7 as stated: every line of the source from the start line to the end line
\* of the error is followed by a caret line that has a caret at column c
\* exactly when c is between the start column (on the first line, else 0) and
\* the end column (on the last line, else the end of the line), both
\* included; for "foo(bar" with columns 3 to 7 the carets are at 3 to 7.
C7_CaretsFromStartToEndColumn ==
    Rendered =>
        LET rows == Rows(error.attrs["contents"].chars)
            first == error.start_position.line
            n == error.end_position.line - first + 1
        IN  \A k \in 1..n :
                LET line == rows[first + k]
                    lo == IF k = 1 THEN error.start_position.column ELSE 0
                    hi == IF k = n THEN error.end_position.column ELSE Len(line) - 1
                IN  /\ Len(Output) >= 2 * k
                    /\ Output[2 * k - 1] = line
                    /\ \A c \in lo..hi :
                          c < Len(Output[2 * k]) /\ Output[2 * k][c + 1] = "^"
                    /\ \A c \in 0..(Len(Output[2 * k]) - 1) :
                          c \notin lo..hi => Output[2 * k][c + 1] = " "

\* C7 amended: the lines rendered are those that splitlines gives from the
\* start line to the end line of the error, as far as they exist; each is
\* followed by a caret line of the same length as the line, which has a caret
\* at column c of the line exactly when c is between the start column (on
\* the first rendered line, else 0) and the end column (on the last rendered
\* line, else the end of the line), both included; for "foo(bar" with
\* columns 3 to 7 the carets are at 3 to 6, the last column of the line.
C7_CaretsWithinLine ==
    Rendered =>
        LET src == splitlines(error.attrs["contents"].chars)
            first == error.start_position.line
            last == Min(error.end_position.line + 1, Len(src))
            n == IF last > first THEN last - first ELSE 0
        IN  /\ IF n = 0 THEN rendered.value = <<>>
               ELSE /\ Len(Output) = 2 * n
                    /\ \A k \in 1..n :
                          LET line == src[first + k]
                              lo == IF k = 1 THEN error.start_position.column ELSE 0
                              hi == IF k = n THEN error.end_position.column
                                    ELSE Len(line)
                          IN  /\ Output[2 * k - 1] = line
                              /\ Len(Output[2 * k]) = Len(line)
                              /\ \A c \in 0..(Len(line) - 1) :
                                    Output[2 * k][c + 1] =
                                        IF lo <= c /\ c <= hi THEN "^" ELSE " "
            /\ (/\ error.attrs["contents"].chars = FooBar
                /\ error.start_position = [line |-> 0, column |-> 3]
                /\ error.end_position = [line |-> 0, column |-> 7]) =>
                   Output = <<FooBar, CaretLine>>

\* the error at columns 3 to 7 of "foo(bar" is rendered
C7_Witness ==
    /\ Rendered
    /\ error.attrs["contents"].chars = FooBar
    /\ error.start_position = [line |-> 0, column |-> 3]
    /\ error.end_position = [line |-> 0, column |-> 7]

(***************************************************************************)
(* C11                                                                     *)
(***************************************************************************)
BothKinds(node_type) == is_abstract(node_type) /\ has_content(node_type)

\* C11: NodeType(...) fails exactly when the entry would have subtypes and
\* content (a field, or a children contract that lists a type); so no entry
\* of a schema, and no entry of a registry built from it (those synthesized
\* for the extra types and for ERROR included), is abstract and has content.
C11_AbstractExcludesContent ==
    /\ result.kind = "ok" => ~BothKinds(result.value)
    /\ result.kind = "AssertionError" => BothKinds(result.value)
    /\ \A i \in 1..Len(given.node_types) : ~BothKinds(given.node_types[i])
    /\ provider.constructed =>
          /\ \A i \in 1..Len(Entries) : ~BothKinds(Entries[i])
          /\ \A i \in 1..Len(provider.extra) : ~BothKinds(provider.extra[i])
          /\ ~is_abstract(DictGet(provider.node_types_by_type, ERROR))
          /\ ~is_abstract(DictGet(provider.node_types_by_type, T_com))

\* after an abstract entry was built, an entry with subtypes and a children
\* contract that lists a type is refused
C11_Witness ==
    /\ result.kind = "AssertionError"
    /\ result.value.fields = <<>>
    /\ args_bool(result.value.children)
    /\ \E i \in 1..Len(given.node_types) : is_abstract(given.node_types[i])

(***************************************************************************)
(* C12                                                                     *)
(***************************************************************************)
LastOf(path) == path[Len(path)]

\* the children of the node of activation i that the traversal is through
\* with: all before the one a deeper activation is on, or all up to the one
\* the cursor is on, or all
Passed(i) ==
    LET limit == IF i < Len(stack) THEN LastOf(stack[i + 1].path) - 1
                 ELSE IF pc = "goto_next_sibling" THEN LastOf(cursor)
                 ELSE KidCount(tree, stack[i].path)
    IN  SelectSeq(Kids(tree, stack[i].path), LAMBDA q : LastOf(q) <= limit)

PassedUnder(i, field) ==
    SelectSeq(Passed(i),
              LAMBDA q : DictGet(tree, q).is_named /\ DictGet(tree, q).field = field)

\* C12: in every activation the positional children collected so far are
\* the conversions of exactly the named children passed so far that the
\* cursor reported without field name, in sibling order; a named child
\* reported under a field is in that field's slot (as the last element of
\* the list, or as the value) and not among the positional children; and the
\* node returned holds the positional children so collected.
C12_PositionalChildrenInOrder ==
    /\ \A i \in 1..Len(stack) :
          /\ IsListOf(List(stack[i].children), tree, PassedUnder(i, NoField))
          /\ \A k \in 1..Len(Passed(i)) :
                LET tsnode == DictGet(tree, Passed(i)[k])
                    under == PassedUnder(i, tsnode.field)
                IN  (tsnode.is_named /\ tsnode.field # NoField) =>
                       /\ DictHas(stack[i].fields, tsnode.field[1])
                       /\ LET value == DictGet(stack[i].fields, tsnode.field[1])
                          IN  IF value.tag = "list"
                              THEN IsListOf(value, tree, under)
                              ELSE IsConversionOf(value, tree, under[Len(under)])
    /\ (Done /\ result.kind = "ok" /\ HasAttr(result.value, "children")) =>
          IsListOf(result.value.attrs["children"], tree, FieldKids(tree, <<>>, NoField))

\* a list node is traversed that has two named children without field name
\* and, between them, one under the field item
C12_Witness ==
    /\ pc = "create_node"
    /\ Top.type_name = T_list
    /\ Len(Top.children) = 2
    /\ KidCount(tree, Top.path) = 3
    /\ DictGet(tree, Append(Top.path, 2)).field = <<"item">>

(***************************************************************************)
(* C13                                                                     *)
(***************************************************************************)
\* what the traversal left in fields fits the slots of the class: a value for
\* every field that lists a named type, and for no other
FieldsFit(frame) ==
    \A i \in 1..Len(frame.node_type.fields) :
        DictHas(frame.fields, frame.node_type.fields[i][1])
            = args_named(frame.node_type.fields[i][2])

\* C13: the node that is constructed has the positional children collected,
\* as its attribute children, if and only if its entry has content; with
\* content it has them even when there are none, and the construction does
\* not fail when the fields fit; without content it is of a class based on
\* Leaf and has no children, whatever was converted beneath it.
C13_ChildrenIffContent ==
    pc = "create_node" =>
        LET made == create_node(provider, tree, Top, FALSE, call.filename)
            cls == DictGet(provider.node_classes_by_type, Top.type_name)
        IN  /\ made.kind \in {"ok", "TypeError"}
            /\ made.kind = "ok" =>
                  /\ HasAttr(made.value, "children") = has_content(Top.node_type)
                  /\ has_content(Top.node_type) =>
                        made.value.attrs["children"] = List(Top.children)
                  /\ ~has_content(Top.node_type) =>
                        /\ cls.bases[1] = LeafClass
                        /\ DOMAIN made.value.attrs = {}
            /\ (FieldsFit(Top) /\ (Top.type_name # ERROR \/ has_content(Top.node_type))) =>
                  made.kind = "ok"
            /\ \A n \in Produced :
                  (n.tag = "node" /\ result.kind # "ParseError") =>
                      HasAttr(n, "children") = has_content(EntryOf(n))

\* a num node, whose entry has no content, is constructed after a named child
\* was converted beneath it
C13_Witness ==
    /\ pc = "create_node"
    /\ Top.type_name = T_num
    /\ ~has_content(Top.node_type)
    /\ Len(Top.children) >= 1
    /\ create_node(provider, tree, Top, FALSE, call.filename).kind = "ok"

(***************************************************************************)
(* C14                                                                     *)
(***************************************************************************)
\* the node values an activation holds directly
RECURSIVE Direct(_)
Direct(fields) ==
    IF fields = <<>> THEN <<>>
    ELSE (CASE fields[1][2].tag = "node" -> <<fields[1][2]>>
            [] fields[1][2].tag = "list" -> fields[1][2].items
            [] OTHER -> <<>>) \o Direct(Tail(fields))

Held(frame) == frame.children \o Direct(frame.fields)

\* C14: each activation is on a child of the node of the activation that
\* called it; while an activation iterates over the children the cursor is
\* on one of them, before and after that it is on the activation's own node,
\* so that it is there when the activation returns; and no activation holds
\* two conversions of one node.
C14_CursorReturnsToNode ==
    /\ \A i \in 1..Len(stack) :
          /\ i > 1 => (stack[i].path # <<>> /\ Parent(stack[i].path) = stack[i - 1].path)
          /\ \A j, k \in 1..Len(Held(stack[i])) :
                j # k => Held(stack[i])[j].start_position
                            # Held(stack[i])[k].start_position
    /\ stack # <<>> =>
          /\ stack[1].path = <<>>
          /\ pc \in {"goto_first_child", "optional_fields", "create_node"} =>
                cursor = Top.path
          /\ pc = "goto_next_sibling" =>
                /\ cursor # <<>>
                /\ Parent(cursor) = Top.path
                /\ DictHas(tree, cursor)
    /\ (Done /\ result.kind = "ok") => cursor = <<>>

\* a node below the root, which has a child itself, is through with its
\* children and about to return
C14_Witness ==
    /\ pc = "create_node"
    /\ Len(stack) = 2
    /\ KidCount(tree, Top.path) >= 1
    /\ cursor = Top.path

(***************************************************************************)
(* C15                                                                     *)
(***************************************************************************)
\* C15: a call on a named root that fails, fails with NodeTypeError or, when
\* raise_parse_error is on, with ParseError; a named child under a field
\* name that the entry of its parent does not declare makes it fail in no
\* other way.
C15_FailsWithLookupOrParseErrorOnly ==
    (Done /\ DictGet(tree, <<>>).is_named) =>
        \/ result.kind \in {"ok", "NodeTypeError"}
        \/ call.raise_parse_error /\ result.kind = "ParseError"

====
